---- MODULE Spec2Model ----
(***************************************************************************)
(* rx-dynamodb: the RxDynamo facade (src/src/RxDynamo/Constructor.js) and  *)
(* the Model wrapper (src/src/Model.js): option translation, cursor codec, *)
(* response building and the allBy query.                                  *)
(*                                                                         *)
(* Representation.  A JavaScript string is a sequence of one-character     *)
(* strings.  A JavaScript object is the sequence of its own properties in  *)
(* insertion order, each a pair <<name, value>>.  A scalar value is a      *)
(* record [str |-> BOOLEAN, txt |-> string]: a number is its decimal text  *)
(* with str FALSE, a string its characters with str TRUE.  An optional     *)
(* (possibly undefined) value is <<>> or <<v>>, and Null where the value   *)
(* may be null.                                                            *)
(***************************************************************************)
EXTENDS Integers, Sequences, FiniteSets, TLC

(***************************************************************************)
(* Bounds of the model.                                                    *)
(***************************************************************************)
MaxItems == 2
MaxCalls == 2
MaxStore == 5
MaxLimit == 3

None == <<>>
Some(v) == <<v>>
Null == <<"null", "null">>

(***************************************************************************)
(* Characters and bytes: the printable ASCII range 32..126, in order (the  *)
(* backquote, which no text of the model holds, is written <bq>).         *)
(***************************************************************************)
Printable ==
    << " ", "!", "\"", "#", "$", "%", "&", "'", "(", ")", "*", "+", ",", "-", ".", "/",
       "0", "1", "2", "3", "4", "5", "6", "7", "8", "9", ":", ";", "<", "=", ">", "?",
       "@", "A", "B", "C", "D", "E", "F", "G", "H", "I", "J", "K", "L", "M", "N", "O",
       "P", "Q", "R", "S", "T", "U", "V", "W", "X", "Y", "Z", "[", "\\", "]", "^", "_",
       "<bq>", "a", "b", "c", "d", "e", "f", "g", "h", "i", "j", "k", "l", "m", "n", "o",
       "p", "q", "r", "s", "t", "u", "v", "w", "x", "y", "z", "{", "|", "}", "~" >>

Digits == {"0", "1", "2", "3", "4", "5", "6", "7", "8", "9"}

Ascii(c) ==
    31 + (CHOOSE i \in 1..Len(Printable) : Printable[i] = c)

\* A byte outside the printable range decodes to a character no JSON text has.
Chr(b) ==
    IF b >= 32 /\ b <= 126 THEN Printable[b - 31] ELSE "<?>"

\* new Buffer(str): the UTF-8 bytes of an ASCII string.
Buffer(str) ==
    [i \in 1..Len(str) |-> Ascii(str[i])]

\* buffer.toString(): the string of the bytes.
BufferToString(bytes) ==
    [i \in 1..Len(bytes) |-> Chr(bytes[i])]

(***************************************************************************)
(* Base64 (Buffer.toString('base64'), new Buffer(s, 'base64')) and the     *)
(* base64-url package's escape, unescape, encode and decode.               *)
(***************************************************************************)
Base64Alphabet ==
    << "A", "B", "C", "D", "E", "F", "G", "H", "I", "J", "K", "L", "M", "N", "O", "P",
       "Q", "R", "S", "T", "U", "V", "W", "X", "Y", "Z", "a", "b", "c", "d", "e", "f",
       "g", "h", "i", "j", "k", "l", "m", "n", "o", "p", "q", "r", "s", "t", "u", "v",
       "w", "x", "y", "z", "0", "1", "2", "3", "4", "5", "6", "7", "8", "9", "+", "/" >>

ByteAt(bytes, i) ==
    IF i <= Len(bytes) THEN bytes[i] ELSE 0

\* The k-th (0..3) base64 character of the 3-byte group that starts at byte i.
Sextet(bytes, i, k) ==
    LET b1 == ByteAt(bytes, i)
        b2 == ByteAt(bytes, i + 1)
        b3 == ByteAt(bytes, i + 2)
    IN  CASE k = 0 -> b1 \div 4
          [] k = 1 -> (b1 % 4) * 16 + (b2 \div 16)
          [] k = 2 -> (b2 % 16) * 4 + (b3 \div 64)
          [] OTHER -> b3 % 64

\* bytes.toString('base64'): standard alphabet, padded with "=" to a multiple of 4.
ToBase64(bytes) ==
    LET n == Len(bytes)
        groups == (n + 2) \div 3
    IN  [p \in 1..(4 * groups) |->
            LET g == (p - 1) \div 4
                k == (p - 1) % 4
                i == 3 * g + 1
            IN  IF (k = 2 /\ i + 1 > n) \/ (k = 3 /\ i + 2 > n)
                THEN "="
                ELSE Base64Alphabet[Sextet(bytes, i, k) + 1]]

Base64Index(c) ==
    IF \E i \in 1..64 : Base64Alphabet[i] = c
    THEN (CHOOSE i \in 1..64 : Base64Alphabet[i] = c) - 1
    ELSE 0

\* new Buffer(str, 'base64'): decoding stops at the first "=".
FromBase64(str) ==
    LET pads == {i \in 1..Len(str) : str[i] = "="}
        m == IF pads = {} THEN Len(str)
             ELSE (CHOOSE i \in pads : \A j \in pads : i <= j) - 1
        s == [i \in 1..m |-> Base64Index(str[i])]
        n == (6 * m) \div 8
    IN  [j \in 1..n |->
            LET g == (j - 1) \div 3
                r == (j - 1) % 3
                q == 4 * g + 1
            IN  CASE r = 0 -> s[q] * 4 + (s[q + 1] \div 16)
                  [] r = 1 -> (s[q + 1] % 16) * 16 + (s[q + 2] \div 4)
                  [] OTHER -> (s[q + 2] % 4) * 64 + s[q + 3]]

\* base64url.escape: "+" to "-", "/" to "_", "=" removed.
Escape(str) ==
    LET rep == [i \in 1..Len(str) |->
                   IF str[i] = "+" THEN "-" ELSE IF str[i] = "/" THEN "_" ELSE str[i]]
    IN  SelectSeq(rep, LAMBDA c : c # "=")

\* base64url.unescape: pads to a multiple of 4, "-" to "+", "_" to "/".
Unescape(str) ==
    LET pad == SubSeq(<<"=", "=", "=">>, ((Len(str) + 3) % 4) + 1, 3)
        full == str \o pad
    IN  [i \in 1..Len(full) |->
            IF full[i] = "-" THEN "+" ELSE IF full[i] = "_" THEN "/" ELSE full[i]]

Base64UrlEncode(str) ==
    Escape(ToBase64(Buffer(str)))

Base64UrlDecode(str) ==
    BufferToString(FromBase64(Unescape(str)))

(***************************************************************************)
(* Strings: split and join, as String.prototype.split and Array.join.      *)
(***************************************************************************)
IndexOf(str, c) ==
    IF \E i \in 1..Len(str) : str[i] = c
    THEN CHOOSE i \in 1..Len(str) : str[i] = c /\ \A j \in 1..(i - 1) : str[j] # c
    ELSE 0

RECURSIVE Split(_, _)
Split(str, sep) ==
    LET i == IndexOf(str, sep)
    IN  IF i = 0 THEN <<str>>
        ELSE <<SubSeq(str, 1, i - 1)>> \o Split(SubSeq(str, i + 1, Len(str)), sep)

RECURSIVE Join(_, _)
Join(strs, sep) ==
    IF Len(strs) = 0 THEN <<>>
    ELSE IF Len(strs) = 1 THEN strs[1]
    ELSE strs[1] \o sep \o Join(Tail(strs), sep)

Reverse(seq) ==
    [i \in 1..Len(seq) |-> seq[Len(seq) + 1 - i]]

(***************************************************************************)
(* Objects: own properties in insertion order.                             *)
(***************************************************************************)
Has(obj, name) ==
    \E i \in 1..Len(obj) : obj[i][1] = name

Get(obj, name) ==
    obj[CHOOSE i \in 1..Len(obj) : obj[i][1] = name][2]

\* obj[name] = value: an existing property keeps its place.
ObjSet(obj, name, value) ==
    IF Has(obj, name)
    THEN [i \in 1..Len(obj) |-> IF obj[i][1] = name THEN <<name, value>> ELSE obj[i]]
    ELSE Append(obj, <<name, value>>)

\* delete obj[name]
ObjDelete(obj, name) ==
    SelectSeq(obj, LAMBDA p : p[1] # name)

\* Object.assign(to, from) on objects of scalars.
RECURSIVE ObjAssign(_, _)
ObjAssign(to, from) ==
    IF Len(from) = 0 THEN to
    ELSE ObjAssign(ObjSet(to, from[1][1], from[1][2]), Tail(from))

(***************************************************************************)
(* JSON.stringify and JSON.parse on objects whose members are numbers and  *)
(* strings (the shape of an item key), and JSON.parse of the text null.    *)
(* The strings of the model hold no quote, backslash or control character, *)
(* so none is escaped.                                                     *)
(***************************************************************************)
Quote(str) ==
    <<"\"">> \o str \o <<"\"">>

StringifyValue(v) ==
    IF v.str THEN Quote(v.txt) ELSE v.txt

StringifyMembers(obj) ==
    [i \in 1..Len(obj) |-> Quote(obj[i][1]) \o <<":">> \o StringifyValue(obj[i][2])]

JSONStringify(obj) ==
    <<"{">> \o Join(StringifyMembers(obj), <<",">>) \o <<"}">>

\* The first index >= i of text t that holds c, or 0.
Find(t, i, c) ==
    IF \E j \in i..Len(t) : t[j] = c
    THEN CHOOSE j \in i..Len(t) : t[j] = c /\ \A k \in i..(j - 1) : t[k] # c
    ELSE 0

\* The last index of the run of digits that starts at i.
DigitsEnd(t, i) ==
    CHOOSE e \in i..Len(t) :
        /\ \A k \in i..e : t[k] \in Digits
        /\ (e = Len(t) \/ t[e + 1] \notin Digits)

SyntaxError == [ok |-> FALSE, isNull |-> FALSE, obj |-> <<>>]

\* The members of an object from index i of t, after the members acc.
RECURSIVE ParseMembers(_, _, _)
ParseMembers(t, i, acc) ==
    LET q == Find(t, i + 1, "\"")
        v == q + 2
        strEnd == Find(t, v + 1, "\"")
        isStr == v <= Len(t) /\ t[v] = "\""
        isNum == v <= Len(t) /\ t[v] \in Digits
        last == IF isStr THEN strEnd ELSE DigitsEnd(t, v)
        value == IF isStr THEN [str |-> TRUE, txt |-> SubSeq(t, v + 1, last - 1)]
                 ELSE [str |-> FALSE, txt |-> SubSeq(t, v, last)]
        next == last + 1
        got == ObjSet(acc, SubSeq(t, i + 1, q - 1), value)
    IN  IF i > Len(t) \/ t[i] # "\"" \/ q = 0 THEN SyntaxError
        ELSE IF q + 1 > Len(t) \/ t[q + 1] # ":" THEN SyntaxError
        ELSE IF ~isStr /\ ~isNum THEN SyntaxError
        ELSE IF isStr /\ strEnd = 0 THEN SyntaxError
        ELSE IF next > Len(t) THEN SyntaxError
        ELSE IF t[next] = "}" /\ next = Len(t) THEN [ok |-> TRUE, isNull |-> FALSE, obj |-> got]
        ELSE IF t[next] = "," THEN ParseMembers(t, next + 1, got)
        ELSE SyntaxError

\* JSON.parse(t): [ok |-> TRUE, obj] for an object, isNull for null, or, for a
\* SyntaxError thrown, [ok |-> FALSE].
JSONParse(t) ==
    IF t = <<"n", "u", "l", "l">> THEN [ok |-> TRUE, isNull |-> TRUE, obj |-> <<>>]
    ELSE IF Len(t) < 2 \/ t[1] # "{" THEN SyntaxError
    ELSE IF t = <<"{", "}">> THEN [ok |-> TRUE, isNull |-> FALSE, obj |-> <<>>]
    ELSE ParseMembers(t, 2, <<>>)

(***************************************************************************)
(* State.                                                                  *)
(*   RangeKey      config.RangeKey || null of the Model (None: no range    *)
(*                 key); fixed at construction                             *)
(*   options       the options object of the call at hand                  *)
(*   result        the store's raw result (Items, LastEvaluatedKey)        *)
(*   params        the params object given to the response builder         *)
(*   key, cursor   the argument and the result of the last cursor encoder  *)
(*   fragment      the completion of the last option builder               *)
(*   paginationKey the result of the last _buildPaginationKey              *)
(*   response      the result of the last _buildResponse                   *)
(*   argItems      result.Items as it was when _buildResponse was entered  *)
(*   refinement    the last call of _refineItem or _refineItems: the items  *)
(*                 it was given (arg) and the items it returned (out)      *)
(*   op, calls     the last operation applied, and how many were           *)
(*   call          the facade call at hand: [method, params]               *)
(*   dbCalls       the calls made on the store's client, in order          *)
(*   outcome       the arguments [err, data] the store gave the callback   *)
(*   observer      the subscriber's observer: [isStopped, delivered]       *)
(*   fpc           where the facade call is                                *)
(*   args          the arguments [key, value] of the allBy call            *)
(*   defaultParams allBy's defaultParams object                            *)
(*   thrown        what allBy threw, if it did                             *)
(*   apc           where the allBy call is                                 *)
(*   getArgs       the arguments [hash, range] of the get call             *)
(*   gpc           where the get call is                                   *)
(*   store         the items the table holds under one hash value, in      *)
(*                 ascending order of their range key                      *)
(*   pageSize      the limit the caller pages with                         *)
(*   current       the pages the caller remembers, the one it holds first: *)
(*                 how each was requested (via) and its response           *)
(*   seen          the items of the pages of a forward traversal so far    *)
(***************************************************************************)
VARIABLES RangeKey, options, result, params, key, cursor, fragment,
          paginationKey, response, argItems, refinement, op, calls,
          call, dbCalls, outcome, observer, fpc,
          args, defaultParams, thrown, apc,
          getArgs, gpc,
          store, pageSize, current, seen

modelVars == <<options, result, params, key, cursor, fragment,
               paginationKey, response, argItems, refinement, op, calls>>
facadeVars == <<call, dbCalls, outcome, observer, fpc>>
allByVars == <<args, defaultParams, thrown, apc>>
getVars == <<getArgs, gpc>>
pagingVars == <<store, pageSize, current, seen>>
vars == <<RangeKey, modelVars, facadeVars, allByVars, getVars, pagingVars>>

(***************************************************************************)
(* Attribute names and values of the modelled table.                       *)
(***************************************************************************)
ID == <<"I", "D">>
Range == <<"R", "a", "n", "g", "e">>
Test == <<"T", "e", "s", "t">>

TableName == <<"t", "b", "l">>
HashKey == ID

Num(txt) == [str |-> FALSE, txt |-> txt]
Str(txt) == [str |-> TRUE, txt |-> txt]

\* The values a hash key takes: 1, 10 and the string "a?".
HashValues == {Num(<<"1">>), Num(<<"1", "0">>), Str(<<"a", "?">>)}

MakeItem(h) ==
    << <<ID, h>>, <<Range, Num(<<"3">>)>>, <<Test, Str(<<"x">>)>> >>

ItemPool == {MakeItem(h) : h \in HashValues}

\* The sequences of distinct pool items of length n.
ItemSeqs(n) ==
    {s \in [1..n -> ItemPool] : \A i, j \in 1..n : i # j => s[i] # s[j]}

ItemLists == UNION {ItemSeqs(n) : n \in 0..MaxItems}

(***************************************************************************)
(* Native params: every field optional.                                    *)
(***************************************************************************)
EmptyParams ==
    [TableName |-> None, Key |-> None, KeyConditionExpression |-> None,
     ExpressionAttributeNames |-> None, ExpressionAttributeValues |-> None,
     ScanIndexForward |-> None, ExclusiveStartKey |-> None, Limit |-> None,
     FilterExpression |-> None, ProjectionExpression |-> None]

\* The fields of a params object whose values are objects.
ObjectFields == {"Key", "ExpressionAttributeNames", "ExpressionAttributeValues",
                 "ExclusiveStartKey"}

\* deep-assign's assignKey for every key of from: an undefined or null value is skipped, an
\* object value is merged into an object the target already has, and any other value
\* (or a key the target lacks) is assigned.
DeepAssign(to, from) ==
    [f \in DOMAIN to |->
        IF from[f] = None \/ from[f] = Null THEN to[f]
        ELSE IF to[f] = None \/ f \notin ObjectFields THEN from[f]
        ELSE Some(ObjAssign(to[f][1], from[f][1]))]

Return(v) == [ok |-> TRUE, val |-> v, err |-> <<>>]
Throw(e) == [ok |-> FALSE, val |-> EmptyParams, err |-> e]

\* The errors the engine itself throws, by name.
TypeError == <<"T", "y", "p", "e", "E", "r", "r", "o", "r">>
SyntaxErrorName == <<"S", "y", "n", "t", "a", "x", "E", "r", "r", "o", "r">>
ReferenceError == <<"R", "e", "f", "e", "r", "e", "n", "c", "e", "E", "r", "r", "o", "r">>

(***************************************************************************)
(* Cursor codec (Model.js prevPage, nextPage, lastEvaluatedKey).           *)
(***************************************************************************)
prevPage(k) ==
    <<"-">> \o ToBase64(Buffer(JSONStringify(k)))

nextPage(k) ==
    Base64UrlEncode(JSONStringify(k))

\* [ok |-> TRUE, obj |-> the key] (isNull for null), or ok FALSE when JSON.parse
\* throws.
lastEvaluatedKey(str) ==
    JSONParse(Base64UrlDecode(str))

(***************************************************************************)
(* Option translator (Model.js _buildOptions and its four builders).       *)
(* options is [limit, page, filters, include_fields, fields], each         *)
(* optional: limit a number, page and fields strings, filters an object    *)
(* field -> (operator -> value), include_fields [t |-> "bool" or "str",    *)
(* v |-> its String()].  type is the kind of value options itself is: any  *)
(* value but a plain object has none of the five properties.  fieldsType   *)
(* tells whether options.fields is a string or an array (whose elements    *)
(* the code never gets to read).                                           *)
(***************************************************************************)
EmptyOptions ==
    [type |-> "object", limit |-> None, page |-> None, filters |-> None,
     include_fields |-> None, fields |-> None, fieldsType |-> "string"]

\* lodash isObject(value): an object, an array or a function.
isObject(opts) ==
    opts.type \in {"object", "array", "function"}

\* objectError(key).message
objectError(k) ==
    <<"\"">> \o k \o <<"\"", " ", "i", "s", " ", "n", "o", "t", " ",
                         "d", "e", "f", "i", "n", "e", "d">>

\* Reading a property of undefined or null throws a TypeError.
Nullish(opts) ==
    opts.type \in {"undefined", "null"}

\* !!options.fields: a defined, non-empty string, or any array.
TruthyFields(opts) ==
    opts.fields # None /\ (opts.fieldsType = "array" \/ Len(opts.fields[1]) > 0)

\* !!x of an optional string: defined and not empty.
TruthyStr(x) ==
    x # None /\ Len(x[1]) > 0

\* String(options.include_fields)
IncludeFieldsString(opts) ==
    IF opts.include_fields = None THEN "undefined" ELSE opts.include_fields[1].v

\* Faulty variant: the limit is never passed on.
_limitOptions_Unlimited(opts) ==
    IF ~isObject(opts) THEN Throw(objectError(<<"o", "p", "t", "i", "o", "n", "s">>))
    ELSE Return(EmptyParams)

\* Faulty variant: options is not checked to be an object.
_limitOptions_NoObjectCheck(opts) ==
    IF opts.limit # None /\ opts.limit[1] # 0
    THEN Return([EmptyParams EXCEPT !.Limit = opts.limit])
    ELSE Return(EmptyParams)

_limitOptions(opts) ==
    IF ~isObject(opts) THEN Throw(objectError(<<"o", "p", "t", "i", "o", "n", "s">>))
    ELSE IF opts.limit # None /\ opts.limit[1] # 0
    THEN Return([EmptyParams EXCEPT !.Limit = opts.limit])
    ELSE Return(EmptyParams)

\* Faulty variant: no cursor is taken to point backwards.
_isPaginatingBackwards_Never(opts) ==
    FALSE

_isPaginatingBackwards(opts) ==
    TruthyStr(opts.page) /\ opts.page[1][1] = "-"

\* Faulty variant: the scan direction does not follow the cursor's direction.
_pageOptions_SameDirection(opts) ==
    LET page == opts.page[1]
        back == page[1] = "-"
        decoded == lastEvaluatedKey(IF back THEN SubSeq(page, 2, Len(page)) ELSE page)
    IN  IF Nullish(opts) THEN Throw(TypeError)
        ELSE IF ~TruthyStr(opts.page) THEN Return(EmptyParams)
        ELSE IF ~decoded.ok THEN Throw(SyntaxErrorName)
        ELSE Return([EmptyParams EXCEPT !.ExclusiveStartKey =
                                            IF decoded.isNull THEN Null
                                            ELSE Some(decoded.obj),
                                        !.ScanIndexForward = Some(FALSE)])

_pageOptions(opts) ==
    LET page == opts.page[1]
        back == page[1] = "-"
        decoded == lastEvaluatedKey(IF back THEN SubSeq(page, 2, Len(page)) ELSE page)
    IN  IF Nullish(opts) THEN Throw(TypeError)
        ELSE IF ~TruthyStr(opts.page) THEN Return(EmptyParams)
        ELSE IF ~decoded.ok THEN Throw(SyntaxErrorName)
        ELSE Return([EmptyParams EXCEPT !.ExclusiveStartKey =
                                            IF decoded.isNull THEN Null
                                            ELSE Some(decoded.obj),
                                        !.ScanIndexForward = Some(back)])

Placeholder(prefix, name) ==
    <<prefix>> \o name

_fieldsOptions(opts) ==
    LET fields == Split(opts.fields[1], ",")
        names == [i \in 1..Len(fields) |-> Placeholder("#", fields[i])]
        mapping == ObjAssign(<<>>, [i \in 1..Len(fields) |-> <<names[i], fields[i]>>])
    IN  IF Nullish(opts) THEN Throw(TypeError)
        ELSE IF ~(IncludeFieldsString(opts) = "true" /\ TruthyFields(opts))
        THEN Return(EmptyParams)
        ELSE IF opts.fieldsType = "array" THEN Throw(TypeError)
        ELSE Return([EmptyParams EXCEPT
                        !.ProjectionExpression = Some(Join(names, <<",">>)),
                        !.ExpressionAttributeNames = Some(mapping)])

OperandMapping ==
    << <<"eq", <<"=">> >>, <<"ne", <<"<", ">">> >>, <<"le", <<"<", "=">> >>,
       <<"lt", <<"<">> >>, <<"ge", <<">", "=">> >>, <<"gt", <<">">> >> >>

\* OperandMapping[operand] inside Array.join: undefined joins as the empty string.
OperandSymbol(operand) ==
    IF Has(OperandMapping, operand) THEN Get(OperandMapping, operand) ELSE <<>>

\* Faulty variant: the three parts are joined without the spaces.
_buildFilter_NoSpaces(k, value, operand) ==
    Join(<<k, operand, value>>, <<>>)

_buildFilter(k, value, operand) ==
    Join(<<k, operand, value>>, <<" ">>)

\* The clauses of one field, one per operator, in iteration order.
FieldClauses(field, conditions) ==
    [i \in 1..Len(conditions) |->
        _buildFilter(Placeholder("#", field), Placeholder(":", field),
                     OperandSymbol(conditions[i][1]))]

\* Faulty variant: the first operator of a field keeps the value placeholder.
FieldValues_FirstWins(mapping, field, conditions) ==
    IF Len(conditions) = 0 THEN mapping
    ELSE ObjSet(mapping, Placeholder(":", field), conditions[1][2])

\* attributeValuesMapping after the operators of one field: each assigns ":field".
RECURSIVE FieldValues(_, _, _)
FieldValues(mapping, field, conditions) ==
    IF Len(conditions) = 0 THEN mapping
    ELSE FieldValues(ObjSet(mapping, Placeholder(":", field), conditions[1][2]),
                     field, Tail(conditions))

\* The forEach over Object.keys(options.filters), from field i on.
RECURSIVE FilterLoop(_, _, _)
FilterLoop(filters, i, acc) ==
    IF i > Len(filters) THEN acc
    ELSE LET field == filters[i][1]
             conditions == filters[i][2]
         IN  FilterLoop(filters, i + 1,
                 [names |-> ObjSet(acc.names, Placeholder("#", field), field),
                  values |-> FieldValues(acc.values, field, conditions),
                  expr |-> acc.expr \o FieldClauses(field, conditions)])

_filterOptions(opts) ==
    LET acc == FilterLoop(opts.filters[1], 1,
                          [names |-> <<>>, values |-> <<>>, expr |-> <<>>])
    IN  IF Nullish(opts) THEN Throw(TypeError)
        ELSE IF opts.filters = None THEN Return(EmptyParams)
        ELSE Return([EmptyParams EXCEPT
                        !.ExpressionAttributeNames = Some(acc.names),
                        !.ExpressionAttributeValues = Some(acc.values),
                        !.FilterExpression = Some(Join(acc.expr, <<" ", "A", "N", "D", " ">>))])

\* Faulty variant: the fragments are merged one level deep, as Object.assign does,
\* so the ExpressionAttributeNames of the fields replace those of the filter.
_buildOptions_ShallowAssign(opts) ==
    LET limit == _limitOptions(opts)
        page == _pageOptions(opts)
        filter == _filterOptions(opts)
        fields == _fieldsOptions(opts)
        over(to, from) == [f \in DOMAIN to |-> IF from[f] = None THEN to[f] ELSE from[f]]
    IN  IF ~limit.ok THEN limit
        ELSE IF ~page.ok THEN page
        ELSE IF ~filter.ok THEN filter
        ELSE IF ~fields.ok THEN fields
        ELSE Return(over(over(over(over(EmptyParams, limit.val), page.val),
                              filter.val), fields.val))

\* deepAssign({}, limit, page, filter, fields); a throwing builder ends the call.
_buildOptions(opts) ==
    LET limit == _limitOptions(opts)
        page == _pageOptions(opts)
        filter == _filterOptions(opts)
        fields == _fieldsOptions(opts)
    IN  IF ~limit.ok THEN limit
        ELSE IF ~page.ok THEN page
        ELSE IF ~filter.ok THEN filter
        ELSE IF ~fields.ok THEN fields
        ELSE Return(DeepAssign(DeepAssign(DeepAssign(DeepAssign(EmptyParams,
                        limit.val), page.val), filter.val), fields.val))

(***************************************************************************)
(* Field refinement (Model.js _refineItem, _refineItems).                  *)
(***************************************************************************)
RECURSIVE DeleteAll(_, _)
DeleteAll(obj, names) ==
    IF Len(names) = 0 THEN obj
    ELSE DeleteAll(ObjDelete(obj, names[1]), Tail(names))

Excluding(opts) ==
    IncludeFieldsString(opts) = "false" /\ TruthyFields(opts)

\* Faulty variant: only the first of the named attributes is removed.
_refineItem_FirstFieldOnly(item, opts) ==
    IF Excluding(opts) THEN ObjDelete(item, Split(opts.fields[1], ",")[1]) ELSE item

_refineItem(item, opts) ==
    IF Excluding(opts) THEN DeleteAll(item, Split(opts.fields[1], ",")) ELSE item

_refineItems(items, opts) ==
    IF Excluding(opts)
    THEN [i \in 1..Len(items) |-> _refineItem(items[i], opts)]
    ELSE items

(***************************************************************************)
(* Keys (Model.js _buildKey, _buildItemKey).  A key attribute the item     *)
(* lacks is an undefined property, which JSON.stringify leaves out: the    *)
(* key is modelled without it.                                             *)
(***************************************************************************)
\* Faulty variant: the range key is left out of the key.
_buildKey_HashOnly(hash, range) ==
    << <<HashKey, hash>> >>

_buildKey(hash, range) ==
    IF RangeKey # None
    THEN << <<HashKey, hash>>, <<RangeKey[1], range>> >>
    ELSE << <<HashKey, hash>> >>

_buildItemKey(item) ==
    (IF Has(item, HashKey) THEN << <<HashKey, Get(item, HashKey)>> >> ELSE <<>>)
    \o (IF RangeKey # None /\ Has(item, RangeKey[1])
        THEN << <<RangeKey[1], Get(item, RangeKey[1])>> >> ELSE <<>>)

(***************************************************************************)
(* Response builder (Model.js _buildResponse, _buildPaginationKey and      *)
(* their predicates).                                                      *)
(***************************************************************************)
\* Faulty variant: only the store's LastEvaluatedKey tells of a next page.
_hasNextPage_StoreOnly(res, opts) ==
    res.LastEvaluatedKey # None

_hasNextPage(res, opts) ==
    res.LastEvaluatedKey # None \/ _isPaginatingBackwards(opts)

\* Faulty variant: any page asked for with an ExclusiveStartKey has a previous page.
_isFirstPage_NoStartKeyOnly(res, prms, opts) ==
    prms.ExclusiveStartKey = None

_isFirstPage(res, prms, opts) ==
    \/ prms.ExclusiveStartKey = None
    \/ /\ prms.ExclusiveStartKey # None
       /\ _isPaginatingBackwards(opts)
       /\ res.LastEvaluatedKey = None

_buildNextKey(lastItem) ==
    nextPage(_buildItemKey(lastItem))

_buildPrevKey(firstItem) ==
    prevPage(_buildItemKey(firstItem))

NoPaginationKey == [nextPage |-> None, prevPage |-> None]

\* Faulty variant: the length of items is not looked at (the key of a missing item is {}).
_buildPaginationKey_NoLengthCheck(res, prms, items, opts) ==
    [nextPage |-> IF _hasNextPage(res, opts)
                  THEN Some(nextPage(IF Len(items) > 0
                                     THEN _buildItemKey(items[Len(items)]) ELSE <<>>))
                  ELSE None,
     prevPage |-> IF ~_isFirstPage(res, prms, opts)
                  THEN Some(prevPage(IF Len(items) > 0
                                     THEN _buildItemKey(items[1]) ELSE <<>>))
                  ELSE None]

\* Faulty variant: the next cursor is built from the first item of the page.
_buildPaginationKey_NextFromFirst(res, prms, items, opts) ==
    IF Len(items) > 0
    THEN [nextPage |-> IF _hasNextPage(res, opts)
                       THEN Some(_buildNextKey(items[1])) ELSE None,
          prevPage |-> IF ~_isFirstPage(res, prms, opts)
                       THEN Some(_buildPrevKey(items[1])) ELSE None]
    ELSE NoPaginationKey

_buildPaginationKey(res, prms, items, opts) ==
    IF Len(items) > 0
    THEN [nextPage |-> IF _hasNextPage(res, opts)
                       THEN Some(_buildNextKey(items[Len(items)])) ELSE None,
          prevPage |-> IF ~_isFirstPage(res, prms, opts)
                       THEN Some(_buildPrevKey(items[1])) ELSE None]
    ELSE NoPaginationKey

\* Faulty variant: the items are never reversed.
_buildResponse_NoReverse(res, prms, opts) ==
    LET items == res.Items
        paginationKeys == _buildPaginationKey(res, prms, items, opts)
    IN  [Items |-> items,
         response |-> [items |-> _refineItems(items, opts),
                       nextPage |-> paginationKeys.nextPage,
                       prevPage |-> paginationKeys.prevPage]]

\* Faulty variant: the pagination keys are built from the refined items.
_buildResponse_RefinedKeys(res, prms, opts) ==
    LET items == IF _isPaginatingBackwards(opts) THEN Reverse(res.Items) ELSE res.Items
        refined == _refineItems(items, opts)
        paginationKeys == _buildPaginationKey(res, prms, refined, opts)
    IN  [Items |-> items,
         response |-> [items |-> refined,
                       nextPage |-> paginationKeys.nextPage,
                       prevPage |-> paginationKeys.prevPage]]

\* items.reverse() reverses result.Items in place: Items is the array afterwards.
_buildResponse(res, prms, opts) ==
    LET items == IF _isPaginatingBackwards(opts) THEN Reverse(res.Items) ELSE res.Items
        paginationKeys == _buildPaginationKey(res, prms, items, opts)
    IN  [Items |-> items,
         response |-> [items |-> _refineItems(items, opts),
                       nextPage |-> paginationKeys.nextPage,
                       prevPage |-> paginationKeys.prevPage]]

(***************************************************************************)
(* RxDynamo facade (RxDynamo/Constructor.js).  Rx.Observable.create hands  *)
(* the subscribe function an observer that follows the Rx grammar: once    *)
(* onError or onCompleted went through it is stopped, and every later      *)
(* onNext, onError and onCompleted is dropped.  An event is                *)
(* [type, v]: v the value or the error, optional.                          *)
(***************************************************************************)
dynamoMethods ==
    {"batchGet", "batchWrite", "createSet", "delete", "get", "put", "query", "scan",
     "update"}

IdleObserver == [isStopped |-> FALSE, delivered |-> <<>>]

Event(type, v) == [type |-> type, v |-> v]

onNext(o, v) ==
    IF o.isStopped THEN o
    ELSE [o EXCEPT !.delivered = Append(@, Event("next", v))]

onError(o, e) ==
    IF o.isStopped THEN o
    ELSE [isStopped |-> TRUE, delivered |-> Append(o.delivered, Event("error", e))]

onCompleted(o) ==
    IF o.isStopped THEN o
    ELSE [isStopped |-> TRUE, delivered |-> Append(o.delivered, Event("completed", None))]

\* Faulty variant: the callback does not look at err.
dynamoCallback_IgnoresErr(o, err, data) ==
    onCompleted(onNext(o, data))

\* The callback given to db[method]: if (err) observer.onError(err), then
\* observer.onNext(data), then observer.onCompleted().
dynamoCallback(o, err, data) ==
    LET o1 == IF err # None THEN onError(o, err) ELSE o
        o2 == onNext(o1, data)
    IN  onCompleted(o2)

(***************************************************************************)
(* allBy's default query params (Model.js allBy, defaultParams).           *)
(***************************************************************************)
HKeyName == <<"#", "h", "k", "e", "y">>
HValueName == <<":", "h", "v", "a", "l", "u", "e">>
KeyCondition == HKeyName \o <<" ", "=", " ">> \o HValueName

DefaultQueryParams(k, value) ==
    [EmptyParams EXCEPT
        !.TableName = Some(TableName),
        !.KeyConditionExpression = Some(KeyCondition),
        !.ExpressionAttributeNames = Some(<< <<HKeyName, k>> >>),
        !.ExpressionAttributeValues = Some(<< <<HValueName, value>> >>),
        !.ScanIndexForward = Some(FALSE)]

(***************************************************************************)
(* Inputs of the pure functions.                                           *)
(***************************************************************************)
Bool(b) == [t |-> "bool", v |-> b]

\* The (include_fields, fields) pairs of the options drawn.
FieldChoices ==
    { <<None, None>>,
      <<Some(Bool("false")), Some(Test \o <<",">> \o Range)>>,
      <<Some(Bool("false")), Some(ID)>>,
      <<Some(Bool("false")), None>>,
      <<Some(Bool("true")), Some(ID \o <<",">> \o Test)>> }

SomeKey == << <<ID, Num(<<"1">>)>>, <<Range, Num(<<"3">>)>> >>

\* The item keys handed to the cursor encoders: those of the pool's items.
KeyPool == {_buildItemKey(i) : i \in ItemPool}

NoCall == [method |-> "", params |-> "none"]
NoOutcome == [err |-> None, data |-> None]
NoArgs == [key |-> <<>>, value |-> Num(<<"0">>)]
NoGetArgs == [hash |-> Num(<<"0">>), range |-> Num(<<"0">>)]
NoRefined == [arg |-> <<>>, out |-> <<>>]

FacadeIdle ==
    /\ call = NoCall
    /\ dbCalls = <<>>
    /\ outcome = NoOutcome
    /\ observer = IdleObserver
    /\ fpc = "idle"

AllByIdle ==
    /\ args = NoArgs
    /\ defaultParams = EmptyParams
    /\ thrown = <<>>
    /\ apc = "idle"

GetIdle ==
    /\ getArgs = NoGetArgs
    /\ gpc = "idle"

PagingIdle ==
    /\ store = <<>>
    /\ pageSize = 0
    /\ current = <<>>
    /\ seen = <<>>

ModelIdle ==
    /\ key = None
    /\ cursor = None
    /\ fragment = Return(EmptyParams)
    /\ paginationKey = NoPaginationKey
    /\ response = None
    /\ argItems = <<>>
    /\ refinement = NoRefined
    /\ op = "init"
    /\ calls = 0

Init ==
    /\ RangeKey \in {None, Some(Range)}
    /\ \E fc \in FieldChoices :
          options = [EmptyOptions EXCEPT !.include_fields = fc[1], !.fields = fc[2]]
    /\ result \in [Items : ItemLists, LastEvaluatedKey : {None, Some(SomeKey)}]
    /\ \E esk \in {None, Some(SomeKey)} :
          params = [DefaultQueryParams(Test, Str(<<"x">>)) EXCEPT !.ExclusiveStartKey = esk]
    /\ ModelIdle
    /\ FacadeIdle
    /\ AllByIdle
    /\ GetIdle
    /\ PagingIdle

\* Model.nextPage(k)
NextPageCall ==
    /\ op = "init"
    /\ \E k \in KeyPool :
          /\ key' = Some(k)
          /\ cursor' = Some(nextPage(k))
    /\ op' = "nextPage"
    /\ UNCHANGED <<RangeKey, refinement, options, result, params, fragment, paginationKey,
                   response, argItems, calls, facadeVars, allByVars,
                   getVars, pagingVars>>

\* Model.prevPage(k)
PrevPageCall ==
    /\ op = "init"
    /\ \E k \in KeyPool :
          /\ key' = Some(k)
          /\ cursor' = Some(prevPage(k))
    /\ op' = "prevPage"
    /\ UNCHANGED <<RangeKey, refinement, options, result, params, fragment, paginationKey,
                   response, argItems, calls, facadeVars, allByVars,
                   getVars, pagingVars>>

\* The caller puts the cursor it was given into the options of its next call.
Request ==
    /\ op \in {"nextPage", "prevPage"}
    /\ options' = [options EXCEPT !.page = cursor]
    /\ op' = "request"
    /\ UNCHANGED <<RangeKey, refinement, result, params, key, cursor, fragment, paginationKey,
                   response, argItems, calls, facadeVars, allByVars,
                   getVars, pagingVars>>

\* Model._pageOptions(options)
PageOptionsCall ==
    /\ op \in {"init", "request"}
    /\ fragment' = _pageOptions(options)
    /\ op' = "_pageOptions"
    /\ UNCHANGED <<RangeKey, refinement, options, result, params, key, cursor, paginationKey,
                   response, argItems, calls, facadeVars, allByVars,
                   getVars, pagingVars>>

\* Model._buildPaginationKey(result, params, result.Items, options)
BuildPaginationKeyCall ==
    /\ op \in {"init", "request"}
    /\ paginationKey' = _buildPaginationKey(result, params, result.Items, options)
    /\ op' = "_buildPaginationKey"
    /\ UNCHANGED <<RangeKey, refinement, options, result, params, key, cursor, fragment,
                   response, argItems, calls, facadeVars, allByVars,
                   getVars, pagingVars>>

\* Model._buildResponse(result, params, options), possibly again on the same result.
BuildResponseCall ==
    /\ op \in {"init", "request", "_buildResponse"}
    /\ calls < MaxCalls
    /\ LET r == _buildResponse(result, params, options)
       IN  /\ response' = Some(r.response)
           /\ result' = [result EXCEPT !.Items = r.Items]
    /\ argItems' = result.Items
    /\ calls' = calls + 1
    /\ op' = "_buildResponse"
    /\ UNCHANGED <<RangeKey, refinement, options, params, key, cursor, fragment, paginationKey,
                   facadeVars, allByVars,
                   getVars, pagingVars>>

Next ==
    \/ NextPageCall
    \/ PrevPageCall
    \/ Request
    \/ PageOptionsCall
    \/ BuildPaginationKeyCall
    \/ BuildResponseCall

Spec == Init /\ [][Next]_vars

(***************************************************************************)
(* One call of a facade method with one subscription (SpecFacade).         *)
(***************************************************************************)
FacadeParams == {"p1", "p2"}
StoreErrors == {None, Some("e1"), Some("e2")}
StoreData == {None, Some("d1"), Some("d2")}

InitFacade ==
    /\ RangeKey = None
    /\ options = EmptyOptions
    /\ result = [Items |-> <<>>, LastEvaluatedKey |-> None]
    /\ params = EmptyParams
    /\ ModelIdle
    /\ FacadeIdle
    /\ AllByIdle
    /\ GetIdle
    /\ PagingIdle

\* RxDynamo[m](p): returns the observable; the store is not called yet.
FacadeCall ==
    /\ fpc = "idle"
    /\ \E m \in dynamoMethods, p \in FacadeParams :
          call' = [method |-> m, params |-> p]
    /\ fpc' = "created"
    /\ UNCHANGED <<RangeKey, modelVars, dbCalls, outcome, observer, allByVars,
                   getVars, pagingVars>>

\* subscribe: the function given to Rx.Observable.create runs and calls db[method].
FacadeSubscribe ==
    /\ fpc = "created"
    /\ dbCalls' = Append(dbCalls, call)
    /\ fpc' = "subscribed"
    /\ UNCHANGED <<RangeKey, modelVars, call, outcome, observer, allByVars,
                   getVars, pagingVars>>

\* The store calls back with (err, data).
FacadeCallback ==
    /\ fpc = "subscribed"
    /\ \E err \in StoreErrors, data \in StoreData :
          /\ outcome' = [err |-> err, data |-> data]
          /\ observer' = dynamoCallback(observer, err, data)
    /\ fpc' = "done"
    /\ UNCHANGED <<RangeKey, modelVars, call, dbCalls, allByVars,
                   getVars, pagingVars>>

NextFacade ==
    \/ FacadeCall
    \/ FacadeSubscribe
    \/ FacadeCallback

SpecFacade == InitFacade /\ [][NextFacade]_vars

(***************************************************************************)
(* Model.allBy(key, value, options) with one subscription (SpecAllBy).     *)
(*                                                                         *)
(* allBy evaluates _buildOptions(options, params) one line before          *)
(* `const params` is initialized.  The read of the uninitialized binding   *)
(* throws a ReferenceError on an engine that implements the temporal dead  *)
(* zone and yields undefined where const is compiled to var: AllByCall     *)
(* takes either outcome.                                                   *)
(***************************************************************************)
\* Faulty variant: the options are merged into a fresh object, deepAssign({}, ...).
allBy_FreshTarget(k, value, opts) ==
    LET optionalParams == _buildOptions(opts)
    IN  [ok |-> optionalParams.ok,
         err |-> optionalParams.err,
         defaultParams |-> DefaultQueryParams(k, value),
         params |-> DeepAssign(DefaultQueryParams(k, value), optionalParams.val)]

\* allBy up to the call of RxDynamo.query: deepAssign(defaultParams, optionalParams)
\* merges into defaultParams itself and returns it, so params is that same object.
allBy(k, value, opts) ==
    LET optionalParams == _buildOptions(opts)
        merged == DeepAssign(DefaultQueryParams(k, value), optionalParams.val)
    IN  [ok |-> optionalParams.ok,
         err |-> optionalParams.err,
         defaultParams |-> merged,
         params |-> merged]

\* The key whose cursors the caller may hold.
CursorKey == _buildItemKey(MakeItem(Num(<<"1", "0">>)))

NotACursor == <<"x">>

AllByPages ==
    {None, Some(nextPage(CursorKey)), Some(prevPage(CursorKey)), Some(NotACursor)}

\* Attributes named as allBy's own placeholders are.
hkey == <<"h", "k", "e", "y">>
hvalue == <<"h", "v", "a", "l", "u", "e">>

AllByFilters ==
    {None,
     Some(<< <<Range, << <<"gt", Num(<<"2">>)>> >> >> >>),
     Some(<< <<hkey, << <<"eq", Num(<<"2">>)>> >> >>,
             <<hvalue, << <<"ne", Num(<<"7">>)>> >> >> >>)}

AllByFields ==
    { <<None, None>>,
      <<Some(Bool("false")), Some(Test \o <<",">> \o Range)>>,
      <<Some(Bool("true")), Some(ID \o <<",">> \o Test)>> }

InitAllBy ==
    /\ RangeKey \in {None, Some(Range)}
    /\ \E limit \in {None, Some(2)}, page \in AllByPages, filters \in AllByFilters,
          fc \in AllByFields :
          options = [EmptyOptions EXCEPT !.limit = limit, !.page = page,
                                         !.filters = filters,
                                         !.include_fields = fc[1], !.fields = fc[2]]
    /\ result \in [Items : ItemLists, LastEvaluatedKey : {None, Some(SomeKey)}]
    /\ params = EmptyParams
    /\ ModelIdle
    /\ FacadeIdle
    /\ AllByIdle
    /\ GetIdle
    /\ PagingIdle

\* The synchronous part of allBy(k, v, options).
AllByCall ==
    /\ apc = "idle"
    /\ \E k \in {ID, Test}, deadZoneThrows \in BOOLEAN :
          LET v == Str(<<"x">>)
              a == allBy(k, v, options)
          IN  /\ args' = [key |-> k, value |-> v]
              /\ IF deadZoneThrows
                 THEN /\ thrown' = ReferenceError
                      /\ defaultParams' = DefaultQueryParams(k, v)
                      /\ apc' = "threw"
                      /\ call' = call
                 ELSE IF ~a.ok
                 THEN /\ thrown' = a.err
                      /\ defaultParams' = DefaultQueryParams(k, v)
                      /\ apc' = "threw"
                      /\ call' = call
                 ELSE /\ thrown' = thrown
                      /\ defaultParams' = a.defaultParams
                      /\ apc' = "observable"
                      /\ call' = [method |-> "query", params |-> a.params]
    /\ UNCHANGED <<RangeKey, modelVars, dbCalls, outcome, observer, fpc,
                   getVars, pagingVars>>

\* subscribe on the observable allBy returned: RxDynamo.query calls db.query(params).
AllBySubscribe ==
    /\ apc = "observable"
    /\ dbCalls' = Append(dbCalls, call)
    /\ apc' = "waiting"
    /\ UNCHANGED <<RangeKey, modelVars, call, outcome, observer, fpc,
                   args, defaultParams, thrown,
                   getVars, pagingVars>>

\* The store calls back: the facade's callback runs, and map's selector turns a
\* value into _buildResponse(result, defaultParams, options).
AllByCallback ==
    /\ apc = "waiting"
    /\ \E err \in {None, Some("e1")}, data \in {None, Some(result)} :
          LET inner == dynamoCallback(IdleObserver, err, data)
              hasNext == \E i \in 1..Len(inner.delivered) : inner.delivered[i].type = "next"
              r == _buildResponse(result, defaultParams, options)
          IN  /\ (err = None) # (data = None)
              /\ outcome' = [err |-> err, data |-> data]
              /\ observer' =
                    [isStopped |-> inner.isStopped,
                     delivered |-> [i \in 1..Len(inner.delivered) |->
                                      IF inner.delivered[i].type = "next"
                                      THEN Event("next", Some(r.response))
                                      ELSE inner.delivered[i]]]
              /\ IF hasNext
                 THEN /\ params' = defaultParams
                      /\ argItems' = result.Items
                      /\ result' = [result EXCEPT !.Items = r.Items]
                      /\ response' = Some(r.response)
                      /\ op' = "_buildResponse"
                      /\ calls' = calls + 1
                 ELSE UNCHANGED <<params, argItems, result, response, op, calls>>
    /\ apc' = "done"
    /\ UNCHANGED <<RangeKey, refinement, options, key, cursor, fragment, paginationKey,
                   call, dbCalls, fpc, args, defaultParams, thrown,
                   getVars, pagingVars>>

NextAllBy ==
    \/ AllByCall
    \/ AllBySubscribe
    \/ AllByCallback

SpecAllBy == InitAllBy /\ [][NextAllBy]_vars

(***************************************************************************)
(* Model.get(hash, range, options) with one subscription (SpecGet).        *)
(***************************************************************************)
\* Object.assign(to, from) on params: every own property of from replaces that of
\* to, a null one too.
ObjectAssign(to, from) ==
    [f \in DOMAIN to |-> IF from[f] = None THEN to[f] ELSE from[f]]

\* get up to the call of RxDynamo.get: the params it is called with, or what
\* _buildOptions threw.
get(hash, range, opts) ==
    LET getParams == [EmptyParams EXCEPT !.TableName = Some(TableName),
                                         !.Key = Some(_buildKey(hash, range))]
        optionalParams == _buildOptions(opts)
    IN  [ok |-> optionalParams.ok,
         err |-> optionalParams.err,
         params |-> ObjectAssign(ObjectAssign(EmptyParams, getParams), optionalParams.val)]

\* The selector of get's map: the refined Item of the store's result, or {}.
getSelector(data, opts) ==
    IF data.Item # None THEN _refineItem(data.Item[1], opts) ELSE <<>>

\* What the store answers a get with: no Item, or an item of the pool.
GetData == {[Item |-> None]} \cup {[Item |-> Some(i)] : i \in ItemPool}

InitGet ==
    /\ RangeKey \in {None, Some(Range)}
    /\ \E limit \in {None, Some(2)}, page \in AllByPages, filters \in AllByFilters,
          fc \in AllByFields :
          options = [EmptyOptions EXCEPT !.limit = limit, !.page = page,
                                         !.filters = filters,
                                         !.include_fields = fc[1], !.fields = fc[2]]
    /\ result = [Items |-> <<>>, LastEvaluatedKey |-> None]
    /\ params = EmptyParams
    /\ ModelIdle
    /\ FacadeIdle
    /\ AllByIdle
    /\ GetIdle
    /\ PagingIdle

\* The synchronous part of get(hash, range, options).
GetCall ==
    /\ gpc = "idle"
    /\ \E hash \in HashValues :
          LET range == Num(<<"3">>)
              g == get(hash, range, options)
          IN  /\ getArgs' = [hash |-> hash, range |-> range]
              /\ IF ~g.ok
                 THEN /\ thrown' = g.err
                      /\ gpc' = "threw"
                      /\ call' = call
                 ELSE /\ thrown' = thrown
                      /\ gpc' = "observable"
                      /\ call' = [method |-> "get", params |-> g.params]
    /\ UNCHANGED <<RangeKey, modelVars, dbCalls, outcome, observer, fpc,
                   args, defaultParams, apc, pagingVars>>

\* subscribe on the observable get returned: RxDynamo.get calls db.get(params).
GetSubscribe ==
    /\ gpc = "observable"
    /\ dbCalls' = Append(dbCalls, call)
    /\ gpc' = "waiting"
    /\ UNCHANGED <<RangeKey, modelVars, call, outcome, observer, fpc,
                   allByVars, getArgs, pagingVars>>

\* The store calls back: the facade's callback runs, and map's selector turns a
\* value into the refined Item or {}.
GetCallback ==
    /\ gpc = "waiting"
    /\ \E err \in {None, Some("e1")}, data \in {None} \cup {Some(d) : d \in GetData} :
          LET inner == dynamoCallback(IdleObserver, err, data)
          IN  /\ (err = None) # (data = None)
              /\ outcome' = [err |-> err, data |-> data]
              /\ observer' =
                    [isStopped |-> inner.isStopped,
                     delivered |-> [i \in 1..Len(inner.delivered) |->
                                      IF inner.delivered[i].type = "next"
                                      THEN Event("next", Some(getSelector(data[1], options)))
                                      ELSE inner.delivered[i]]]
    /\ gpc' = "done"
    /\ UNCHANGED <<RangeKey, modelVars, call, dbCalls, fpc,
                   allByVars, getArgs, pagingVars>>

NextGet ==
    \/ GetCall
    \/ GetSubscribe
    \/ GetCallback

SpecGet == InitGet /\ [][NextGet]_vars

(***************************************************************************)
(* Paging through the items of one hash value (SpecPaging, SpecTraversal). *)
(* The store is a finite list of items ordered by their range key; a query *)
(* honours ExclusiveStartKey, ScanIndexForward and Limit, and returns      *)
(* LastEvaluatedKey when the scan stopped at the limit.  Each request is   *)
(* the one allBy sends for the caller's options, and each response the one *)
(* its selector builds from the store's result and the params sent.        *)
(***************************************************************************)
\* The hash value the pages are queried for.
PagedHash == Num(<<"1">>)

\* A store of n items in ascending order: the i-th has range key i.
StoreOf(n) ==
    [i \in 1..n |->
        << <<ID, PagedHash>>,
           <<Range, Num(<<(<<"1", "2", "3", "4", "5", "6", "7", "8", "9">>)[i]>>)>>,
           <<Test, Str(<<"x">>)>> >>]

\* The store's answer to a query with params prms.
StoreQuery(prms) ==
    LET PositionOf(k) == CHOOSE i \in 1..Len(store) : Get(store[i], Range) = Get(k, Range)
        forward == prms.ScanIndexForward = Some(TRUE)
        start == prms.ExclusiveStartKey
        n == Len(store)
        first == IF start = None THEN (IF forward THEN 1 ELSE n)
                 ELSE (IF forward THEN PositionOf(start[1]) + 1 ELSE PositionOf(start[1]) - 1)
        left == IF forward THEN n - first + 1 ELSE first
        count == IF prms.Limit # None /\ prms.Limit[1] < left THEN prms.Limit[1] ELSE left
        items == [j \in 1..count |-> store[IF forward THEN first + j - 1 ELSE first - j + 1]]
        stopped == prms.Limit # None /\ count = prms.Limit[1]
    IN  [Items |-> items,
         LastEvaluatedKey |->
             IF stopped
             THEN Some(<< <<ID, Get(items[count], ID)>>, <<Range, Get(items[count], Range)>> >>)
             ELSE None]

\* The options of a request for the page at cursor pg.
PageRequest(pg) ==
    [EmptyOptions EXCEPT !.limit = Some(pageSize), !.page = pg]

\* The pages the caller remembers: the one it holds and the two before it.
Remembered == 3

InitPaging ==
    /\ RangeKey = Some(Range)
    /\ options = EmptyOptions
    /\ result = [Items |-> <<>>, LastEvaluatedKey |-> None]
    /\ params = EmptyParams
    /\ ModelIdle
    /\ FacadeIdle
    /\ AllByIdle
    /\ GetIdle
    /\ store \in {StoreOf(n) : n \in 0..MaxStore}
    /\ pageSize \in 1..MaxLimit
    /\ current = <<>>
    /\ seen = <<>>

\* allBy(HashKey, PagedHash, PageRequest(pg)) up to the query: the params sent.
PageCall(via, pg) ==
    /\ apc = "idle"
    /\ options' = PageRequest(pg)
    /\ params' = allBy(HashKey, PagedHash, PageRequest(pg)).params
    /\ op' = via
    /\ apc' = "waiting"
    /\ UNCHANGED <<RangeKey, result, key, cursor, fragment, paginationKey, response,
                   argItems, refinement, calls, facadeVars, args, defaultParams, thrown,
                   getVars, pagingVars>>

\* The caller requests the first page: options without page.
RequestFirst ==
    /\ current = <<>>
    /\ PageCall("first", None)

\* The caller requests the page at the nextPage cursor of the page it holds.
FollowNext ==
    /\ current # <<>>
    /\ current[1].response.nextPage # None
    /\ PageCall("next", current[1].response.nextPage)

\* The caller requests the page at the prevPage cursor of the page it holds.
FollowPrev ==
    /\ current # <<>>
    /\ current[1].response.prevPage # None
    /\ PageCall("prev", current[1].response.prevPage)

\* The store answers the query.
StoreAnswers ==
    /\ apc = "waiting"
    /\ result' = StoreQuery(params)
    /\ apc' = "answered"
    /\ UNCHANGED <<RangeKey, options, params, key, cursor, fragment, paginationKey,
                   response, argItems, refinement, op, calls, facadeVars,
                   args, defaultParams, thrown, getVars, pagingVars>>

\* allBy's selector builds the Page Result from the answer and the params sent;
\* in a forward traversal the caller collects the items of every page.
PageBuilt(collected) ==
    /\ apc = "answered"
    /\ LET r == _buildResponse(result, params, options)
       IN  /\ result' = [result EXCEPT !.Items = r.Items]
           /\ response' = Some(r.response)
           /\ current' = SubSeq(<<[via |-> op, response |-> r.response]>> \o current,
                                1, IF Len(current) < Remembered THEN Len(current) + 1
                                   ELSE Remembered)
           /\ seen' = IF collected THEN seen \o r.response.items ELSE seen
    /\ argItems' = result.Items
    /\ apc' = "idle"
    /\ UNCHANGED <<RangeKey, options, params, key, cursor, fragment, paginationKey,
                   refinement, op, calls, facadeVars, args, defaultParams, thrown,
                   getVars, store, pageSize>>

NextPaging ==
    \/ RequestFirst
    \/ FollowNext
    \/ FollowPrev
    \/ StoreAnswers
    \/ PageBuilt(FALSE)

SpecPaging == InitPaging /\ [][NextPaging]_vars

NextTraversal ==
    \/ RequestFirst
    \/ FollowNext
    \/ StoreAnswers
    \/ PageBuilt(TRUE)

\* The caller holds a response without nextPage: it requests no more.
TraversalDone ==
    /\ apc = "idle"
    /\ current # <<>>
    /\ current[1].response.nextPage = None

\* The traversal moves on: apc changes, as it does in every step of
\* NextTraversal, and some step of NextTraversal can be taken exactly when the
\* traversal is not done.
Advance ==
    /\ ~TraversalDone
    /\ apc' \in {"idle", "waiting", "answered"}

\* The caller goes on requesting as long as it is given a nextPage, and every
\* request is answered.
SpecTraversal == InitPaging /\ [][NextTraversal]_vars /\ WF_apc(Advance)

(***************************************************************************)
(* The option builders and the item refinement, one call each on options   *)
(* of every shape (SpecOptions).                                           *)
(***************************************************************************)
Text(b) == [t |-> "str", v |-> b]

\* The operators a filter may carry: the six of OperandMapping and one it lacks.
UnknownOperand == "xx"
Operands == {OperandMapping[i][1] : i \in 1..Len(OperandMapping)} \cup {UnknownOperand}

Two == Num(<<"2">>)
Seven == Num(<<"7">>)
Example == Str(<<"x">>)

\* options.filters: absent, empty, one field with one operator, two fields (as in
\* the test), and one field with two operators.
FilterPool ==
    {None, Some(<<>>)}
    \cup {Some(<< <<f, << <<o, Two>> >> >> >>) : f \in {Range, Test}, o \in Operands}
    \cup {Some(<< <<Range, << <<"gt", Two>> >> >>, <<Test, << <<"eq", Example>> >> >> >>),
          Some(<< <<Range, << <<"ge", Two>>, <<"le", Seven>> >> >> >>),
          Some(<< <<Test, << <<"eq", Example>> >> >>,
                  <<Range, << <<"gt", Two>>, <<"ne", Seven>> >> >> >>),
          Some(<< <<Test, << <<"eq", Example>> >> >>,
                  <<Range, << <<"lt", Seven>>, <<"xx", Two>> >> >> >>)}

\* options.include_fields: absent, a boolean, or the text of one.
IncludePool ==
    {None, Some(Bool("true")), Some(Bool("false")), Some(Text("true")), Some(Text("false"))}

\* options.fields: absent, the empty string, a comma-separated string, or an array.
FieldsPool ==
    { <<None, "string">>, <<Some(<<>>), "string">>, <<Some(ID), "string">>,
      <<Some(ID \o <<",">> \o Test), "string">>,
      <<Some(Test \o <<",">> \o Range), "string">>,
      <<Some(Test), "array">> }

\* A cursor's payload that is no key of the table: an object without the hash key,
\* the empty object, and null.
KeylessCursors ==
    {nextPage(<< <<Range, Num(<<"3">>)>> >>),
     prevPage(<< <<Range, Num(<<"3">>)>> >>),
     nextPage(<<>>),
     Base64UrlEncode(<<"n", "u", "l", "l">>)}

PagePool ==
    {None, Some(NotACursor)}
    \cup {Some(nextPage(k)) : k \in {_buildItemKey(MakeItem(Num(<<"1", "0">>)))}}
    \cup {Some(prevPage(k)) : k \in {_buildItemKey(MakeItem(Num(<<"1", "0">>)))}}
    \cup {Some(c) : c \in KeylessCursors}

LimitPool == {None, Some(0), Some(1), Some(2)}

\* The values that are no plain object: every property read of them is undefined
\* (or throws, for undefined and null).
NonPlainTypes ==
    {"undefined", "null", "number", "string", "boolean", "array", "function"}

\* The options drawn: each property varied alone, the fields pairs, and the
\* combinations in which several builders contribute at once.
OptionsPool ==
    {[EmptyOptions EXCEPT !.type = t] : t \in NonPlainTypes}
    \cup {[EmptyOptions EXCEPT !.limit = l] : l \in LimitPool}
    \cup {[EmptyOptions EXCEPT !.page = pg] : pg \in PagePool}
    \cup {[EmptyOptions EXCEPT !.filters = f] : f \in FilterPool}
    \cup {[EmptyOptions EXCEPT !.include_fields = i, !.fields = fl[1], !.fieldsType = fl[2]] :
             i \in IncludePool, fl \in FieldsPool}
    \cup {[EmptyOptions EXCEPT !.limit = l, !.page = pg, !.filters = f,
                               !.include_fields = Some(Bool("true")), !.fields = fl] :
             l \in {None, Some(2)},
             pg \in {None, Some(nextPage(SomeKey)), Some(Base64UrlEncode(<<"n", "u", "l", "l">>))},
             f \in {None,
                    Some(<< <<Range, << <<"gt", Two>> >> >>, <<Test, << <<"eq", Example>> >> >> >>),
                    Some(<< <<Range, << <<"ge", Two>>, <<"le", Seven>> >> >> >>)},
             fl \in {None, Some(ID \o <<",">> \o Test), Some(Test \o <<",">> \o Range)}}

InitOptions ==
    /\ RangeKey \in {None, Some(Range)}
    /\ options \in OptionsPool
    /\ result \in [Items : ItemLists, LastEvaluatedKey : {None}]
    /\ params = EmptyParams
    /\ ModelIdle
    /\ FacadeIdle
    /\ AllByIdle
    /\ GetIdle
    /\ PagingIdle

\* Model._limitOptions(options)
LimitOptionsCall ==
    /\ op = "init"
    /\ fragment' = _limitOptions(options)
    /\ op' = "_limitOptions"
    /\ UNCHANGED <<RangeKey, refinement, options, result, params, key, cursor, paginationKey,
                   response, argItems, calls, facadeVars, allByVars,
                   getVars, pagingVars>>

\* Model._filterOptions(options)
FilterOptionsCall ==
    /\ op = "init"
    /\ fragment' = _filterOptions(options)
    /\ op' = "_filterOptions"
    /\ UNCHANGED <<RangeKey, refinement, options, result, params, key, cursor, paginationKey,
                   response, argItems, calls, facadeVars, allByVars,
                   getVars, pagingVars>>

\* Model._fieldsOptions(options)
FieldsOptionsCall ==
    /\ op = "init"
    /\ fragment' = _fieldsOptions(options)
    /\ op' = "_fieldsOptions"
    /\ UNCHANGED <<RangeKey, refinement, options, result, params, key, cursor, paginationKey,
                   response, argItems, calls, facadeVars, allByVars,
                   getVars, pagingVars>>

\* Model._buildOptions(options)
BuildOptionsCall ==
    /\ op = "init"
    /\ fragment' = _buildOptions(options)
    /\ op' = "_buildOptions"
    /\ UNCHANGED <<RangeKey, refinement, options, result, params, key, cursor, paginationKey,
                   response, argItems, calls, facadeVars, allByVars,
                   getVars, pagingVars>>

\* Model._refineItem(item, options) on an item of the result, with the options of
\* a query: an object whose fields, if any, is a string.
RefineItemCall ==
    /\ op = "init"
    /\ options.type = "object" /\ options.fieldsType = "string"
    /\ \E i \in 1..Len(result.Items) :
          refinement' = [arg |-> <<result.Items[i]>>,
                      out |-> <<_refineItem(result.Items[i], options)>>]
    /\ op' = "_refineItem"
    /\ UNCHANGED <<RangeKey, options, result, params, key, cursor, fragment, paginationKey,
                   response, argItems, calls, facadeVars, allByVars,
                   getVars, pagingVars>>

\* Model._refineItems(result.Items, options), with the same options.
RefineItemsCall ==
    /\ op = "init"
    /\ options.type = "object" /\ options.fieldsType = "string"
    /\ refinement' = [arg |-> result.Items, out |-> _refineItems(result.Items, options)]
    /\ op' = "_refineItems"
    /\ UNCHANGED <<RangeKey, options, result, params, key, cursor, fragment, paginationKey,
                   response, argItems, calls, facadeVars, allByVars,
                   getVars, pagingVars>>

NextOptions ==
    \/ LimitOptionsCall
    \/ PageOptionsCall
    \/ FilterOptionsCall
    \/ FieldsOptionsCall
    \/ BuildOptionsCall
    \/ RefineItemCall
    \/ RefineItemsCall

SpecOptions == InitOptions /\ [][NextOptions]_vars

(***************************************************************************)
(* Properties of the option translator, the cursor codec and the response  *)
(* builder, checked under Spec.                                            *)
(***************************************************************************)
\* options.page is a backward cursor: it starts with "-".
BackwardPage ==
    options.page # None /\ Len(options.page[1]) > 0 /\ options.page[1][1] = "-"

\* The key of an item: its hash key value and, if a range key is configured, its
\* range key value.
KeyOf(item) ==
    IF RangeKey = None
    THEN << <<ID, Get(item, ID)>> >>
    ELSE << <<ID, Get(item, ID)>>, <<RangeKey[1], Get(item, RangeKey[1])>> >>

\* c is the forward cursor of key k: no leading "-", and it decodes to k.
IsForwardCursorOf(c, k) ==
    /\ c[1] # "-"
    /\ lastEvaluatedKey(c) = [ok |-> TRUE, isNull |-> FALSE, obj |-> k]

\* c is the backward cursor of key k: "-", then a text that decodes to k.
IsBackwardCursorOf(c, k) ==
    /\ c[1] = "-"
    /\ lastEvaluatedKey(SubSeq(c, 2, Len(c))) = [ok |-> TRUE, isNull |-> FALSE, obj |-> k]

\* C3: _pageOptions returns {} when options.page is absent; for a forward cursor
\* ExclusiveStartKey is the key the cursor encodes and ScanIndexForward is false;
\* for a backward cursor ExclusiveStartKey is the key encoded after the "-" and
\* ScanIndexForward is true; it sets no other field.
C3_PageOptions ==
    op = "_pageOptions" =>
        IF options.page = None
        THEN fragment = Return(EmptyParams)
        ELSE fragment = Return([EmptyParams EXCEPT
                                   !.ExclusiveStartKey = key,
                                   !.ScanIndexForward = Some(BackwardPage)])

C3_Witness ==
    /\ op = "_pageOptions"
    /\ BackwardPage
    /\ fragment.ok
    /\ fragment.val.ScanIndexForward = Some(TRUE)
    /\ fragment.val.ExclusiveStartKey = key

\* C4: for a non-empty item sequence _buildPaginationKey has nextPage exactly when
\* result.LastEvaluatedKey is present or options.page is a backward cursor, and
\* nextPage is then the forward cursor of the key of the last item.
C4_NextPage ==
    (op = "_buildPaginationKey" /\ Len(result.Items) > 0) =>
        /\ paginationKey.nextPage # None
             <=> (result.LastEvaluatedKey # None \/ BackwardPage)
        /\ paginationKey.nextPage # None =>
             IsForwardCursorOf(paginationKey.nextPage[1],
                               KeyOf(result.Items[Len(result.Items)]))

C4_Witness ==
    /\ op = "_buildPaginationKey"
    /\ Len(result.Items) > 1
    /\ result.LastEvaluatedKey = None
    /\ BackwardPage
    /\ paginationKey.nextPage # None

\* The page is the first one: params has no ExclusiveStartKey, or it has one and
\* options.page is a backward cursor and result.LastEvaluatedKey is absent.
FirstPage ==
    \/ params.ExclusiveStartKey = None
    \/ (params.ExclusiveStartKey # None /\ BackwardPage /\ result.LastEvaluatedKey = None)

\* C5: for a non-empty item sequence _buildPaginationKey has prevPage exactly when
\* the page is not the first one, and prevPage is then the backward cursor of the
\* key of the first item; a forward options.page with no ExclusiveStartKey in
\* params gives no prevPage.
C5_PrevPage ==
    (op = "_buildPaginationKey" /\ Len(result.Items) > 0) =>
        /\ paginationKey.prevPage # None <=> ~FirstPage
        /\ paginationKey.prevPage # None =>
             IsBackwardCursorOf(paginationKey.prevPage[1], KeyOf(result.Items[1]))
        /\ (options.page # None /\ ~BackwardPage /\ params.ExclusiveStartKey = None)
             => paginationKey.prevPage = None

C5_Witness ==
    /\ op = "_buildPaginationKey"
    /\ Len(result.Items) > 1
    /\ params.ExclusiveStartKey # None
    /\ BackwardPage
    /\ result.LastEvaluatedKey # None
    /\ paginationKey.prevPage # None

\* C6: the items of the response are those of result.Items as they were given, in
\* reversed order when options.page is a backward cursor and in the given order
\* otherwise, each refined, and as many as were given.
C6_ItemOrder ==
    op = "_buildResponse" =>
        LET n == Len(argItems)
            items == response[1].items
        IN  /\ Len(items) = n
            /\ \A i \in 1..n :
                  items[i] = _refineItem(argItems[IF BackwardPage THEN n + 1 - i ELSE i],
                                         options)

C6_Witness ==
    /\ op = "_buildResponse"
    /\ BackwardPage
    /\ Len(argItems) = 2
    /\ response[1].items[1] = _refineItem(argItems[2], options)
    /\ response[1].items[1] # response[1].items[2]

\* C7: with no items _buildPaginationKey returns {}, whatever result, params and
\* options are.
C7_EmptyItems ==
    (op = "_buildPaginationKey" /\ result.Items = <<>>) =>
        paginationKey = NoPaginationKey

C7_Witness ==
    /\ op = "_buildPaginationKey"
    /\ result.Items = <<>>
    /\ result.LastEvaluatedKey # None
    /\ params.ExclusiveStartKey # None
    /\ BackwardPage
    /\ paginationKey = NoPaginationKey

\* options removes a key attribute from the exposed items.
ExcludesKeyAttribute ==
    /\ Excluding(options)
    /\ \E f \in {ID} \cup (IF RangeKey = None THEN {} ELSE {RangeKey[1]}) :
          \E i \in 1..Len(Split(options.fields[1], ",")) :
             Split(options.fields[1], ",")[i] = f

\* The items of the response before refinement: result.Items as given, reversed
\* for a backward page.
OrderCorrected ==
    IF BackwardPage THEN Reverse(argItems) ELSE argItems

\* C8: when options removes a key attribute from the exposed items, the cursors of
\* the response still encode the full key of the raw items: nextPage that of the
\* last, prevPage that of the first item of the order-corrected sequence.
C8_CursorsFromRawItems ==
    (op = "_buildResponse" /\ ExcludesKeyAttribute /\ Len(argItems) > 0) =>
        /\ response[1].nextPage # None =>
             IsForwardCursorOf(response[1].nextPage[1],
                               KeyOf(OrderCorrected[Len(argItems)]))
        /\ response[1].prevPage # None =>
             IsBackwardCursorOf(response[1].prevPage[1], KeyOf(OrderCorrected[1]))

C8_Witness ==
    /\ op = "_buildResponse"
    /\ ExcludesKeyAttribute
    /\ Len(argItems) > 1
    /\ response[1].nextPage # None
    /\ response[1].prevPage # None
    /\ ~Has(response[1].items[1], ID)

\* C10: for every key k, the cursor nextPage(k) decodes to k with forward
\* direction, the cursor prevPage(k) decodes to k with backward direction, and
\* prevPage(k) is "-" followed by nextPage(k).
C10_CursorRoundTrip ==
    /\ (op = "_pageOptions" /\ key # None /\ cursor = Some(nextPage(key[1]))) =>
          fragment = Return([EmptyParams EXCEPT !.ExclusiveStartKey = key,
                                                !.ScanIndexForward = Some(FALSE)])
    /\ (op = "_pageOptions" /\ key # None /\ cursor = Some(prevPage(key[1]))) =>
          fragment = Return([EmptyParams EXCEPT !.ExclusiveStartKey = key,
                                                !.ScanIndexForward = Some(TRUE)])
    /\ op = "prevPage" => cursor = Some(<<"-">> \o nextPage(key[1]))

(***************************************************************************)
(* Properties of the facade, checked under SpecFacade.                     *)
(***************************************************************************)
EventTypes(o) ==
    [i \in 1..Len(o.delivered) |-> o.delivered[i].type]

\* C1: for every facade method and every outcome of the store's callback, the
\* subscription is delivered either one value and then completion, or one error
\* and nothing else: with an error reported, no value and no completion, and in
\* no case both an error and a value; nothing is delivered before the callback.
C1_OneResultOrOneError ==
    /\ fpc = "done" =>
          IF outcome.err # None
          THEN observer.delivered = <<Event("error", outcome.err)>>
          ELSE observer.delivered = <<Event("next", outcome.data), Event("completed", None)>>
    /\ fpc # "done" => observer.delivered = <<>>
    /\ ~("error" \in {EventTypes(observer)[i] : i \in 1..Len(observer.delivered)}
         /\ "next" \in {EventTypes(observer)[i] : i \in 1..Len(observer.delivered)})

C1_Witness ==
    /\ fpc = "done"
    /\ call.method = "createSet"
    /\ outcome.err # None
    /\ outcome.data # None
    /\ observer.delivered = <<Event("error", outcome.err)>>

(***************************************************************************)
(* Properties of allBy, checked under SpecAllBy.                           *)
(***************************************************************************)
\* The equality-query defaults of the call merged with _buildOptions(options).
ExpectedQuery ==
    DeepAssign(DefaultQueryParams(args.key, args.value), _buildOptions(options).val)

\* _buildResponse ran in the allBy call.
ResponseBuilt ==
    apc = "done" /\ response # None

\* C2: for every options object _buildOptions accepts, allBy does not fail before
\* the store is called, issues exactly one query, whose params are the
\* equality-query defaults merged with _buildOptions(options), and on the store's
\* result yields exactly one page result, the one _buildResponse built from it.
C2_AllByQueriesOnce ==
    _buildOptions(options).ok =>
        /\ apc # "threw"
        /\ apc \in {"idle", "observable"} => dbCalls = <<>>
        /\ apc \in {"waiting", "done"} =>
              dbCalls = <<[method |-> "query", params |-> ExpectedQuery]>>
        /\ (apc = "done" /\ outcome.err = None) =>
              /\ response # None
              /\ observer.delivered = <<Event("next", response), Event("completed", None)>>

HasKeyAttributes(k) ==
    /\ Has(k, HashKey)
    /\ RangeKey # None => Has(k, RangeKey[1])

\* C11: _pageOptions never returns an ExclusiveStartKey that lacks a key attribute
\* of the table: a cursor whose payload has not the hash key (or the configured
\* range key) makes it fail instead.
C11_KeylessCursorRejected ==
    (op = "_pageOptions" /\ fragment.ok /\ fragment.val.ExclusiveStartKey # None) =>
        /\ fragment.val.ExclusiveStartKey # Null
        /\ HasKeyAttributes(fragment.val.ExclusiveStartKey[1])

\* options is an object-shaped value: a plain object, an array or a function.
ObjectShaped ==
    options.type \notin {"undefined", "null", "number", "string", "boolean"}

\* C12: for an options object without limit _limitOptions returns {}, and for one
\* with limit = n > 0 it returns exactly {Limit: n}.
C12_LimitOptions ==
    (op = "_limitOptions" /\ ObjectShaped) =>
        /\ options.limit = None => fragment = Return(EmptyParams)
        /\ (options.limit # None /\ options.limit[1] > 0) =>
              fragment = Return([EmptyParams EXCEPT !.Limit = Some(options.limit[1])])

C12_Witness ==
    /\ op = "_limitOptions"
    /\ options.limit = Some(2)
    /\ fragment.ok
    /\ fragment.val = [EmptyParams EXCEPT !.Limit = Some(2)]

\* The message of the error thrown for options that is no object.
OptionsNotDefined ==
    <<"\"", "o", "p", "t", "i", "o", "n", "s", "\"", " ", "i", "s", " ",
      "n", "o", "t", " ", "d", "e", "f", "i", "n", "e", "d">>

\* C13: for options that is undefined, null, a number, a string or a boolean,
\* _limitOptions throws '"options" is not defined', and so does _buildOptions, no
\* other builder having failed or contributed before; for an object-shaped options
\* _limitOptions does not throw.
C13_OptionsMustBeObject ==
    /\ (op \in {"_limitOptions", "_buildOptions"} /\ ~ObjectShaped) =>
          /\ ~fragment.ok
          /\ fragment.err = OptionsNotDefined
          /\ fragment.val = EmptyParams
    /\ (op = "_limitOptions" /\ ObjectShaped) => fragment.ok

C13_Witness ==
    /\ op = "_buildOptions"
    /\ options.type = "undefined"
    /\ ~fragment.ok
    /\ fragment.err = OptionsNotDefined

\* The symbol the store's expression language has for an operator.
SymbolOf(operator) ==
    CASE operator = "eq" -> <<"=">>
      [] operator = "ne" -> <<"<", ">">>
      [] operator = "le" -> <<"<", "=">>
      [] operator = "lt" -> <<"<">>
      [] operator = "ge" -> <<">", "=">>
      [] operator = "gt" -> <<">">>

Supported == {"eq", "ne", "le", "lt", "ge", "gt"}

\* Every operator of every field of options.filters is a supported one.
AllSupported ==
    \A i \in 1..Len(options.filters[1]) :
        \A j \in 1..Len(options.filters[1][i][2]) :
            options.filters[1][i][2][j][1] \in Supported

\* The clause "#f <symbol> :f".
Clause(f, operator) ==
    <<"#">> \o f \o <<" ">> \o SymbolOf(operator) \o <<" ">> \o <<":">> \o f

\* The clauses of the fields from i on, one per (field, operator) pair, in order.
RECURSIVE ClausesFrom(_, _)
ClausesFrom(filters, i) ==
    IF i > Len(filters) THEN <<>>
    ELSE [j \in 1..Len(filters[i][2]) |-> Clause(filters[i][1], filters[i][2][j][1])]
         \o ClausesFrom(filters, i + 1)

\* The clauses joined with " AND ".
RECURSIVE JoinedWithAnd(_)
JoinedWithAnd(clauses) ==
    IF Len(clauses) = 0 THEN <<>>
    ELSE IF Len(clauses) = 1 THEN clauses[1]
    ELSE clauses[1] \o <<" ", "A", "N", "D", " ">> \o JoinedWithAnd(Tail(clauses))

\* options is a defined value, as the builders other than _limitOptions assume:
\* its properties can be read.
Defined ==
    options.type \notin {"undefined", "null"}

\* C14: for a defined options, _filterOptions returns {} when options.filters is
\* absent; for filters with one supported operator per field it returns
\* ExpressionAttributeNames mapping "#f" to f, ExpressionAttributeValues mapping
\* ":f" to the comparison value of f, and FilterExpression the clauses
\* "#f <symbol> :f" joined with " AND " in the order of the fields.
C14_FilterOptions ==
    (op = "_filterOptions" /\ Defined) =>
        /\ options.filters = None => fragment = Return(EmptyParams)
        /\ (/\ options.filters # None
            /\ AllSupported
            /\ \A i \in 1..Len(options.filters[1]) : Len(options.filters[1][i][2]) = 1) =>
              LET fl == options.filters[1]
              IN  fragment = Return([EmptyParams EXCEPT
                     !.ExpressionAttributeNames =
                         Some([i \in 1..Len(fl) |-> << <<"#">> \o fl[i][1], fl[i][1] >>]),
                     !.ExpressionAttributeValues =
                         Some([i \in 1..Len(fl) |-> << <<":">> \o fl[i][1], fl[i][2][1][2] >>]),
                     !.FilterExpression = Some(JoinedWithAnd(ClausesFrom(fl, 1)))])

C14_Witness ==
    /\ op = "_filterOptions"
    /\ options.filters # None
    /\ Len(options.filters[1]) = 2
    /\ fragment.ok
    /\ fragment.val.FilterExpression =
          Some(<<"#", "R", "a", "n", "g", "e", " ", ">", " ", ":", "R", "a", "n", "g", "e",
                 " ", "A", "N", "D", " ",
                 "#", "T", "e", "s", "t", " ", "=", " ", ":", "T", "e", "s", "t">>)

\* C15: _filterOptions fails with an unsupported-operator error whenever a field
\* of options.filters carries an operator outside eq, ne, le, lt, ge, gt.
C15_UnknownOperatorFails ==
    (op = "_filterOptions" /\ options.filters # None /\ ~AllSupported) => ~fragment.ok

\* Some field of options.filters has several operators.
SeveralOperators ==
    \E i \in 1..Len(options.filters[1]) : Len(options.filters[1][i][2]) > 1

\* C16: when a field of options.filters has several operators, FilterExpression
\* has one clause per (field, operator) pair, all those of a field referring to the
\* same ":f", and ExpressionAttributeValues has exactly one entry per field, ":f",
\* holding the value of the last operator of the field.
C16_OneValuePerField ==
    (op = "_filterOptions" /\ options.filters # None /\ AllSupported /\ SeveralOperators) =>
        LET fl == options.filters[1]
        IN  /\ fragment.ok
            /\ fragment.val.FilterExpression = Some(JoinedWithAnd(ClausesFrom(fl, 1)))
            /\ fragment.val.ExpressionAttributeValues =
                  Some([i \in 1..Len(fl) |->
                          << <<":">> \o fl[i][1], fl[i][2][Len(fl[i][2])][2] >>])

C16_Witness ==
    /\ op = "_filterOptions"
    /\ options.filters = Some(<< <<Range, << <<"ge", Two>>, <<"le", Seven>> >> >> >>)
    /\ fragment.ok
    /\ fragment.val.ExpressionAttributeValues = Some(<< << <<":">> \o Range, Seven >> >>)
    /\ fragment.val.FilterExpression =
          Some(<<"#", "R", "a", "n", "g", "e", " ", ">", "=", " ", ":", "R", "a", "n", "g", "e",
                 " ", "A", "N", "D", " ",
                 "#", "R", "a", "n", "g", "e", " ", "<", "=", " ", ":", "R", "a", "n", "g", "e">>)

\* options asks for a projection in the way the specification accepts: the boolean
\* true, and fields a non-empty string.
StrictlyIncluding ==
    /\ options.include_fields = Some([t |-> "bool", v |-> "true"])
    /\ options.fields # None
    /\ options.fieldsType = "string"
    /\ Len(options.fields[1]) > 0

\* The names of a comma-separated list from index i on (none of them empty).
RECURSIVE NamesFrom(_, _)
NamesFrom(str, i) ==
    IF i > Len(str) THEN <<>>
    ELSE LET stop == IF \E j \in i..Len(str) : str[j] = ","
                     THEN CHOOSE j \in i..Len(str) :
                              str[j] = "," /\ \A k \in i..(j - 1) : str[k] # ","
                     ELSE Len(str) + 1
         IN  <<SubSeq(str, i, stop - 1)>> \o NamesFrom(str, stop + 1)

\* The placeholders "#f" of the names, joined with ",".
RECURSIVE Projection(_)
Projection(names) ==
    IF Len(names) = 0 THEN <<>>
    ELSE IF Len(names) = 1 THEN <<"#">> \o names[1]
    ELSE <<"#">> \o names[1] \o <<",">> \o Projection(Tail(names))

\* C17: for a defined options, _fieldsOptions never fails; it returns a fragment
\* other than {} only when options.include_fields is the boolean true and
\* options.fields is a non-empty string, and then ProjectionExpression is the
\* placeholders "#f" joined by "," and ExpressionAttributeNames maps each "#f" to f.
C17_FieldsOptionsStrict ==
    (op = "_fieldsOptions" /\ Defined) =>
        /\ fragment.ok
        /\ ~StrictlyIncluding => fragment.val = EmptyParams
        /\ StrictlyIncluding =>
              LET names == NamesFrom(options.fields[1], 1)
              IN  fragment.val = [EmptyParams EXCEPT
                     !.ProjectionExpression = Some(Projection(names)),
                     !.ExpressionAttributeNames =
                         Some([i \in 1..Len(names) |-> << <<"#">> \o names[i], names[i] >>])]

\* The completions of the four builders on the options at hand.
Limit == _limitOptions(options)
Page == _pageOptions(options)
Filter == _filterOptions(options)
Fields == _fieldsOptions(options)

\* ExpressionAttributeNames of the result is the union of those of the filter and
\* of the fields: every placeholder of either is there with its name, and no other.
NamesUnited ==
    LET fromFilter == IF Filter.val.ExpressionAttributeNames = None THEN <<>>
                      ELSE Filter.val.ExpressionAttributeNames[1]
        fromFields == IF Fields.val.ExpressionAttributeNames = None THEN <<>>
                      ELSE Fields.val.ExpressionAttributeNames[1]
        both == fromFilter \o fromFields
        got == fragment.val.ExpressionAttributeNames
    IN  IF Len(both) = 0 /\ Filter.val.ExpressionAttributeNames = None
                         /\ Fields.val.ExpressionAttributeNames = None
        THEN got = None
        ELSE /\ got # None
             /\ \A i \in 1..Len(both) : Has(got[1], both[i][1]) /\ Get(got[1], both[i][1]) = both[i][2]
             /\ \A i \in 1..Len(got[1]) : \E j \in 1..Len(both) : both[j] = got[1][i]
             /\ \A i, j \in 1..Len(got[1]) : i # j => got[1][i][1] # got[1][j][1]

Removing ==
    /\ options.include_fields \in {Some([t |-> "bool", v |-> "false"]),
                                   Some([t |-> "str", v |-> "false"])}
    /\ options.fields # None
    /\ Len(options.fields[1]) > 0

\* item without the attributes named in options.fields, the others as they were.
WithoutFields(item) ==
    LET names == NamesFrom(options.fields[1], 1)
    IN  SelectSeq(item, LAMBDA a : \A i \in 1..Len(names) : names[i] # a[1])

\* What refinement makes of an item under the options at hand.
RefinedAs(item) ==
    IF Removing THEN WithoutFields(item) ELSE item

\* C20: _refineItem returns the item without the attributes named in
\* options.fields exactly when options.include_fields is false and options.fields
\* is present, and otherwise an object with exactly the attributes and values of
\* the item; _refineItems does the same to each item, keeping count and order.
C20_RefineItems ==
    op \in {"_refineItem", "_refineItems"} =>
        /\ Len(refinement.out) = Len(refinement.arg)
        /\ \A i \in 1..Len(refinement.arg) :
              refinement.out[i] = RefinedAs(refinement.arg[i])

C20_Witness ==
    /\ op = "_refineItems"
    /\ Len(refinement.arg) = 2
    /\ options.include_fields = Some([t |-> "bool", v |-> "false"])
    /\ options.fields = Some(<<"T", "e", "s", "t", ",", "R", "a", "n", "g", "e">>)
    /\ \A i \in 1..2 :
          refinement.out[i] = << <<ID, Get(refinement.arg[i], ID)>> >>

(***************************************************************************)
(* The key condition of allBy's query, checked under SpecAllBy.            *)
(***************************************************************************)
\* C19: whatever options holds, the params allBy sends to the store keep the key
\* condition allBy set: KeyConditionExpression is "#hkey = :hvalue",
\* ExpressionAttributeNames["#hkey"] is the key argument and
\* ExpressionAttributeValues[":hvalue"] the value argument.
C19_KeyConditionKept ==
    apc \in {"waiting", "done"} =>
        LET sent == dbCalls[1].params
        IN  /\ sent.KeyConditionExpression =
                  Some(<<"#", "h", "k", "e", "y", " ", "=", " ", ":", "h", "v", "a", "l", "u", "e">>)
            /\ Get(sent.ExpressionAttributeNames[1], <<"#", "h", "k", "e", "y">>) = args.key
            /\ Get(sent.ExpressionAttributeValues[1], <<":", "h", "v", "a", "l", "u", "e">>)
                  = args.value

(***************************************************************************)
(* _buildResponse called again on the same result, checked under Spec.     *)
(***************************************************************************)
\* C22: _buildResponse leaves result.Items in the order the store returned it,
\* and a second call with the same result, params and options yields the same
\* response as the first.
C22_BuildResponsePure ==
    [][op' = "_buildResponse" =>
          /\ result'.Items = result.Items
          /\ op = "_buildResponse" => response' = response]_vars

(***************************************************************************)
(* Model.get, checked under SpecGet.                                       *)
(***************************************************************************)
\* The key of the table made of the arguments of get.
KeyOfArgs ==
    IF RangeKey = None
    THEN << <<ID, getArgs.hash>> >>
    ELSE << <<ID, getArgs.hash>>, <<RangeKey[1], getArgs.range>> >>

\* C21: for options that _buildOptions accepts, get sends one get request, whose
\* TableName and Key are those built from hash and range whatever options
\* contributes; for a result with an Item it yields the Item refined by options,
\* and for a result without one the empty item.
C21_GetByKey ==
    /\ (gpc # "idle" /\ _buildOptions(options).ok) => gpc # "threw"
    /\ gpc \in {"idle", "observable"} => dbCalls = <<>>
    /\ gpc \in {"waiting", "done"} =>
          /\ Len(dbCalls) = 1
          /\ dbCalls[1].method = "get"
          /\ dbCalls[1].params.TableName = Some(<<"t", "b", "l">>)
          /\ dbCalls[1].params.Key = Some(KeyOfArgs)
    /\ (gpc = "done" /\ outcome.err = None) =>
          observer.delivered =
              << [type |-> "next",
                  v |-> Some(IF outcome.data[1].Item = None THEN <<>>
                             ELSE RefinedAs(outcome.data[1].Item[1]))],
                 [type |-> "completed", v |-> None] >>

C21_Witness ==
    /\ gpc = "done"
    /\ RangeKey # None
    /\ options.limit # None /\ options.page # None /\ options.filters # None
    /\ Removing
    /\ outcome.data # None
    /\ outcome.data[1].Item # None
    /\ observer.delivered[1].v = Some(<< <<ID, getArgs.hash>> >>)
    /\ dbCalls[1].params.Key = Some(<< <<ID, getArgs.hash>>, <<Range, getArgs.range>> >>)

(***************************************************************************)
(* Paging back and forth, checked under SpecPaging.  current[1] is the     *)
(* page the caller holds, current[2] the page it came from and current[3]  *)
(* the page before that.                                                   *)
(***************************************************************************)
\* C23: a non-empty page Q requested with the nextPage of a page P has a
\* prevPage, and the page requested with Q.prevPage has exactly the items of P
\* in the same order.
C23_PagingBackReturns ==
    /\ (/\ Len(current) >= 2
        /\ current[1].via = "next"
        /\ Len(current[1].response.items) > 0)
       => current[1].response.prevPage # None
    /\ (/\ Len(current) >= 3
        /\ current[1].via = "prev"
        /\ current[2].via = "next"
        /\ Len(current[2].response.items) > 0)
       => current[1].response.items = current[3].response.items

\* The caller went from a full page P of two items, itself reached by paging
\* back, on to Q and back again.
C23_Witness ==
    /\ Len(current) = 3
    /\ current[1].via = "prev"
    /\ current[2].via = "next"
    /\ current[3].via = "prev"
    /\ pageSize = 2
    /\ Len(current[2].response.items) > 0
    /\ Len(current[3].response.items) = 2
    /\ current[1].response.items = current[3].response.items

====
